---- MODULE Spec2Model ----
(***************************************************************************)
(* Model of the subcontract dashboard script (src/分包合同数据分析.py).      *)
(* One script run (a Streamlit pass) is a chain of steps over the state:   *)
(* file check -> cached load -> sidebar widgets -> filter -> category      *)
(* charts -> ongoing projects -> CSV export.                               *)
(*                                                                         *)
(* Column names are written in English:                                    *)
(*   签订时间 signing_date, 履行期限(起) performance_start,                 *)
(*   履行期限(止) performance_end, 标的金额 contract_amount,                *)
(*   承办部门 department, 选商方式 procurement_method.                      *)
(* A nullable value (NaT / NaN) is a set with at most one element: {} is   *)
(* the null, {v} the value v.  Timestamps are integer ticks.               *)
(***************************************************************************)
EXTENDS Integers, Sequences, FiniteSets, TLC

VARIABLES
    file,                \* the spreadsheet on disk: [exists, readable, rows]
    cache,               \* st.cache_data entry of load_data: [hit, is_none, rows]
    pc,                  \* position of the running pass in the script
    df,                  \* df = load_data(): [is_none, rows]
    current_time,        \* datetime.now() read at line 224
    start_date,          \* date_input (a day number)
    end_date,            \* date_input (a day number)
    min_amount_input,    \* number_input (nullable number)
    max_amount_input,    \* number_input (nullable number)
    selected_departments,
    selected_types,
    chart_type,          \* "2D" or "3D"
    apply_filter,        \* st.button value of this pass
    filtered_df,
    counts,              \* value_counts of procurement_method over filtered_df
    amount_by_type,      \* (key, sum) entries of the 2D amount chart, as drawn
    amounts,             \* (key, sum) entries of the 3D chart, as drawn
    ongoing_projects,
    yearly_stats,
    csv,                 \* lines handed to st.download_button
    messages,            \* st.error / st.success / st.warning / st.info shown
    reported,            \* the record count printed by st.success, if any
    charts               \* charts drawn in this pass

vars == <<file, cache, pc, df, current_time, start_date, end_date,
          min_amount_input, max_amount_input, selected_departments,
          selected_types, chart_type, apply_filter, filtered_df, counts,
          amount_by_type, amounts, ongoing_projects, yearly_stats, csv,
          messages, reported, charts>>

(***************************************************************************)
(* Bounds of the model.                                                    *)
(***************************************************************************)
MaxRows == 2
TicksPerDay == 2
DaysPerYear == 1
MaxAmount == 2
MaxNow == 1

(***************************************************************************)
(* Raw spreadsheet cells.                                                  *)
(***************************************************************************)
Blank == <<"blank">>
Text == <<"text">>
Value(v) == <<"value", v>>

Midnight(day) == day * TicksPerDay
TicksPerYear == TicksPerDay * DaysPerYear

Row(s, ps, pe, a, d, m) ==
    [signing_date |-> s, performance_start |-> ps, performance_end |-> pe,
     contract_amount |-> a, department |-> d, procurement_method |-> m]

\* Procurement methods in their natural (lexicographic) order.
MethodNames == <<"X", "Y", "Z">>
KeyRank(m) == CHOOSE i \in 1..Len(MethodNames) : MethodNames[i] = m

\* pd.to_datetime(col, errors='coerce') on one cell
to_datetime(cell) == IF cell[1] = "value" THEN {cell[2]} ELSE {}
\* pd.to_numeric(col, errors='coerce') on one cell
to_numeric(cell) == IF cell[1] = "value" THEN {cell[2]} ELSE {}
\* col.fillna('未知部门') on one cell
fillna(cell) == IF cell[1] = "value" THEN cell[2] ELSE "UnknownDept"

\* The body of load_data after read_excel succeeded.
coerce(rows) ==
    [i \in 1..Len(rows) |->
        [signing_date |-> to_datetime(rows[i].signing_date),
         performance_start |-> to_datetime(rows[i].performance_start),
         performance_end |-> to_datetime(rows[i].performance_end),
         contract_amount |-> to_numeric(rows[i].contract_amount),
         department |-> fillna(rows[i].department),
         procurement_method |-> rows[i].procurement_method]]

\* load_data(): None when read_excel raises, the coerced frame otherwise.
load_data(f) ==
    IF f.readable
    THEN [is_none |-> FALSE, rows |-> coerce(f.rows)]
    ELSE [is_none |-> TRUE, rows |-> <<>>]

(***************************************************************************)
(* Column helpers.                                                         *)
(***************************************************************************)
Range(s) == {s[i] : i \in 1..Len(s)}
SetMin(S) == CHOOSE x \in S : \A y \in S : x <= y
SetMax(S) == CHOOSE x \in S : \A y \in S : y <= x

\* Series.min() / Series.max(): nulls are skipped; null when nothing is left.
ColValues(rows, col) == UNION {r[col] : r \in Range(rows)}
ColMin(rows, col) ==
    IF ColValues(rows, col) = {} THEN {} ELSE {SetMin(ColValues(rows, col))}
ColMax(rows, col) ==
    IF ColValues(rows, col) = {} THEN {} ELSE {SetMax(ColValues(rows, col))}

\* Series.unique().tolist() as a set of values
unique(rows, col) == {r[col] : r \in Range(rows)}

\* st.date_input given a datetime keeps its date part
DateOf(ts) == ts \div TicksPerDay
\* pd.to_datetime(date): midnight of that day
DateToDatetime(day) == Midnight(day)

\* Comparisons of a nullable column value with a nullable bound: a null on
\* either side compares False.
Ge(x, bound) == \E a \in x : \E b \in bound : a >= b
Le(x, bound) == \E a \in x : \E b \in bound : a <= b
Gt(x, bound) == \E a \in x : \E b \in bound : a > b

(***************************************************************************)
(* Sidebar defaults and option lists (lines 230-256).                      *)
(***************************************************************************)
min_date(rows) == ColMin(rows, "signing_date")
max_date(rows) == ColMax(rows, "signing_date")
min_amount(rows) == ColMin(rows, "contract_amount")
max_amount(rows) == ColMax(rows, "contract_amount")
departments(rows) == unique(rows, "department")

procurement_types(rows, sel_departments) ==
    IF sel_departments # {}
    THEN {r.procurement_method :
            r \in {q \in Range(rows) : q.department \in sel_departments}}
    ELSE unique(rows, "procurement_method")

\* Values a date_input bounded by [min_date, max_date] can return.
DateChoices(rows) ==
    UNION {DateOf(lo)..DateOf(hi) :
            lo \in min_date(rows), hi \in max_date(rows)}
\* Values a number_input bounded by [min_amount, max_amount] can return;
\* with no parseable amount both bounds and the value are NaN.
AmountChoices(rows) ==
    IF min_amount(rows) = {}
    THEN {{}}
    ELSE {{v} : v \in SetMin(min_amount(rows))..SetMax(max_amount(rows))}

(***************************************************************************)
(* Filter Evaluator (lines 331-341).                                       *)
(***************************************************************************)
\* Variants of the mask with one comparison made strict.
FilterMaskEndExclusive(r, s, e, lo, hi, types, depts) ==
    /\ Ge(r.signing_date, {DateToDatetime(s)})
    /\ \E a \in r.signing_date : a < DateToDatetime(e)
    /\ Ge(r.contract_amount, lo)
    /\ Le(r.contract_amount, hi)
    /\ r.procurement_method \in types
    /\ r.department \in depts

FilterMaskMaxExclusive(r, s, e, lo, hi, types, depts) ==
    /\ Ge(r.signing_date, {DateToDatetime(s)})
    /\ Le(r.signing_date, {DateToDatetime(e)})
    /\ Ge(r.contract_amount, lo)
    /\ \E a \in r.contract_amount : \E b \in hi : a < b
    /\ r.procurement_method \in types
    /\ r.department \in depts

FilterMask(r, s, e, lo, hi, types, depts) ==
    /\ Ge(r.signing_date, {DateToDatetime(s)})
    /\ Le(r.signing_date, {DateToDatetime(e)})
    /\ Ge(r.contract_amount, lo)
    /\ Le(r.contract_amount, hi)
    /\ r.procurement_method \in types
    /\ r.department \in depts

filtered_df_of(rows, s, e, lo, hi, types, depts) ==
    LET Keep(r) == FilterMask(r, s, e, lo, hi, types, depts)
    IN SelectSeq(rows, Keep)

(***************************************************************************)
(* Aggregator: value_counts, groupby().sum(), sort_values, groupby().agg.  *)
(***************************************************************************)
\* Variant: each row overwrites the running total instead of adding to it.
SumAmountOverwrites(rows) ==
    IF rows = <<>> THEN 0
    ELSE IF rows[Len(rows)].contract_amount = {} THEN 0
         ELSE CHOOSE a \in rows[Len(rows)].contract_amount : TRUE

RECURSIVE SumAmount(_)
\* Series.sum(): nulls are skipped (they add 0)
SumAmount(rows) ==
    IF rows = <<>> THEN 0
    ELSE (IF Head(rows).contract_amount = {} THEN 0
          ELSE SetMin(Head(rows).contract_amount)) + SumAmount(Tail(rows))

RowsWithMethod(rows, k) ==
    LET Keep(r) == r.procurement_method = k IN SelectSeq(rows, Keep)

\* filtered_df['选商方式'].value_counts(): rows per category
value_counts(rows) ==
    [k \in unique(rows, "procurement_method") |-> Len(RowsWithMethod(rows, k))]

\* filtered_df.groupby('选商方式')['标的金额'].sum(): one entry per category,
\* in the natural order of the keys
groupby_sum(rows) ==
    LET Present(k) == k \in unique(rows, "procurement_method")
        keys == SelectSeq(MethodNames, Present)
    IN [i \in 1..Len(keys) |->
            [key |-> keys[i], sum |-> SumAmount(RowsWithMethod(rows, keys[i]))]]

\* Variant: the entries left in the order groupby produced them.
sort_values_skipped(s) == {s}

\* The orders Series.sort_values(ascending=False) may produce: the entries
\* by descending value; the default sort is not stable, so ties come in any
\* order.
sort_values_desc(s) ==
    {[i \in 1..Len(s) |-> s[p[i]]] :
        p \in {q \in [1..Len(s) -> 1..Len(s)] :
                 /\ \A i, j \in 1..Len(s) : i # j => q[i] # q[j]
                 /\ \A i \in 1..Len(s) - 1 : s[q[i]].sum >= s[q[i + 1]].sum}}

\* Series.dt.year of one timestamp
YearOf(ts) == ts \div TicksPerYear
\* ongoing_projects['年份']: null when performance_start is null
YearCol(r) == {YearOf(ts) : ts \in r.performance_start}

RowsWithYear(rows, y) ==
    LET Keep(r) == YearCol(r) = {y} IN SelectSeq(rows, Keep)
RowsWithAmount(rows) ==
    LET Keep(r) == r.contract_amount # {} IN SelectSeq(rows, Keep)

\* groupby('年份').agg(项目数量=('标的金额','count'), 合同金额=('标的金额','sum'))
\* .reset_index(): one entry per non-null year, ascending; 'count' counts
\* the non-null amounts of the group.
yearly_stats_of(rows) ==
    LET years == UNION {YearCol(r) : r \in Range(rows)}
        lo == SetMin(years)
        Present(y) == y \in years
        keys == IF years = {} THEN <<>>
                ELSE SelectSeq([i \in 1..(SetMax(years) - lo + 1) |-> lo + i - 1],
                               Present)
    IN [i \in 1..Len(keys) |->
            [year |-> keys[i],
             project_count |-> Len(RowsWithAmount(RowsWithYear(rows, keys[i]))),
             amount_sum |-> SumAmount(RowsWithYear(rows, keys[i]))]]

(***************************************************************************)
(* Ongoing-Project Selector (lines 507-511).                               *)
(***************************************************************************)
OngoingMaskNotBefore(r, now, depts, types) ==
    /\ Ge(r.performance_end, {now})
    /\ r.department \in depts
    /\ r.procurement_method \in types

OngoingMask(r, now, depts, types) ==
    /\ Gt(r.performance_end, {now})
    /\ r.department \in depts
    /\ r.procurement_method \in types

\* Variants: a selector that takes its rows from the filtered frame, and a
\* mask that also takes records ending exactly now.
ongoing_of_filtered(rows, filtered, now, depts, types) ==
    LET Keep(r) == /\ Gt(r.performance_end, {now})
                   /\ r.department \in depts
                   /\ r.procurement_method \in types
    IN SelectSeq(filtered, Keep)

\* Everything in scope at line 507 is a parameter; the selector reads the
\* full frame, not the filtered one.
ongoing_projects_of(rows, filtered, now, depts, types) ==
    LET Keep(r) == OngoingMask(r, now, depts, types) IN SelectSeq(rows, Keep)

(***************************************************************************)
(* CSV export (line 577): to_csv(index=False), a header line and one line  *)
(* per record; a null is written as an empty field.                        *)
(***************************************************************************)
CsvHeader ==
    <<"signing_date", "performance_start", "performance_end",
      "contract_amount", "department", "procurement_method">>
CsvField(x) == IF x = {} THEN <<>> ELSE <<SetMin(x)>>
CsvLine(r) ==
    <<CsvField(r.signing_date), CsvField(r.performance_start),
      CsvField(r.performance_end), CsvField(r.contract_amount),
      <<r.department>>, <<r.procurement_method>>>>
to_csv(rows) == [header |-> CsvHeader, lines |-> [i \in 1..Len(rows) |-> CsvLine(rows[i])]]

(***************************************************************************)
(* The spreadsheets the model is run on.                                   *)
(***************************************************************************)
SeqsUpTo(S, n) == UNION {[1..k -> S] : k \in 0..n}

BaseRow == Row(Value(Midnight(0)), Value(0), Value(0), Value(1), Value("A"), "X")

\* Rows for the filter: BaseRow with one column changed (signing date
\* unparseable, midnight of the next day, later on the next day; amount
\* unparseable or larger; department blank; another method).
FilterRows ==
    {BaseRow}
    \cup {[BaseRow EXCEPT !.signing_date = c] :
            c \in {Text, Value(Midnight(1)), Value(Midnight(1) + 1)}}
    \cup {[BaseRow EXCEPT !.contract_amount = c] : c \in {Text, Value(MaxAmount)}}
    \cup {[BaseRow EXCEPT !.department = Blank],
          [BaseRow EXCEPT !.procurement_method = "Y"]}

\* Rows for the ongoing-project view: performance_end before, at and after
\* the clock readings, with parseable and unparseable amounts, in two start
\* years; then single rows with another signing day, department, method, or
\* an unparseable start.
OngoingRows ==
    {[BaseRow EXCEPT !.performance_end = pe, !.contract_amount = a,
                     !.performance_start = ps] :
        pe \in {Text, Value(0), Value(1)},
        a \in {Text, Value(1)},
        ps \in {Value(0), Value(TicksPerYear)}}
    \cup {[BaseRow EXCEPT !.performance_end = Value(1),
                          !.signing_date = Value(Midnight(1))],
          [BaseRow EXCEPT !.performance_end = Value(1), !.department = Blank],
          [BaseRow EXCEPT !.performance_end = Value(1), !.procurement_method = "Y"],
          [BaseRow EXCEPT !.performance_end = Value(1), !.performance_start = Text]}

\* Rows for the category charts: three methods, two amounts.
CategoryRows ==
    {[BaseRow EXCEPT !.procurement_method = m, !.contract_amount = Value(a)] :
        m \in Range(MethodNames), a \in {1, MaxAmount}}

\* Rows for the aggregations: ongoing for every clock reading, two methods,
\* two amounts, two start years; and one such row with an unparseable
\* amount.
AggregateRows ==
    {[BaseRow EXCEPT !.performance_end = Value(MaxNow + 1),
                     !.procurement_method = m,
                     !.contract_amount = Value(a),
                     !.performance_start = Value(ps)] :
        m \in {"X", "Y"}, a \in {1, MaxAmount}, ps \in {0, TicksPerYear}}
    \cup {[BaseRow EXCEPT !.performance_end = Value(MaxNow + 1),
                          !.contract_amount = Text]}

\* What every pass starts from: nothing computed, nothing shown.
FreshPass ==
    /\ df = [is_none |-> TRUE, rows |-> <<>>]
    /\ current_time = 0
    /\ start_date = 0
    /\ end_date = 0
    /\ min_amount_input = {}
    /\ max_amount_input = {}
    /\ selected_departments = {}
    /\ selected_types = {}
    /\ chart_type = "2D"
    /\ apply_filter = FALSE
    /\ filtered_df = <<>>
    /\ counts = <<>>
    /\ amount_by_type = <<>>
    /\ amounts = <<>>
    /\ ongoing_projects = <<>>
    /\ yearly_stats = <<>>
    /\ csv = <<>>
    /\ messages = {}
    /\ reported = {}
    /\ charts = {}

InitWith(Rows) ==
    /\ file \in [exists : BOOLEAN, readable : BOOLEAN, rows : SeqsUpTo(Rows, MaxRows)]
    /\ cache = [hit |-> FALSE, value |-> [is_none |-> TRUE, rows |-> <<>>]]
    /\ pc = "check"
    /\ FreshPass

Init == InitWith(FilterRows)

widgets == <<start_date, end_date, min_amount_input, max_amount_input,
             selected_departments, selected_types, chart_type, apply_filter>>
category_outputs == <<counts, amount_by_type, amounts>>
ongoing_outputs == <<ongoing_projects, yearly_stats>>

(***************************************************************************)
(* Lines 197-200: the file existence check.                                *)
(***************************************************************************)
\* Variant: the error is shown but the run is not stopped.
FileNotFoundNoStop ==
    /\ pc = "check"
    /\ ~file.exists
    /\ messages' = messages \cup {"error: file not found"}
    /\ pc' = "load"
    /\ UNCHANGED <<file, cache, df, current_time, widgets, filtered_df,
                   category_outputs, ongoing_outputs, csv, reported, charts>>

FileNotFound ==
    /\ pc = "check"
    /\ ~file.exists
    /\ messages' = messages \cup {"error: file not found"}
    /\ pc' = "stopped"
    /\ UNCHANGED <<file, cache, df, current_time, widgets, filtered_df,
                   category_outputs, ongoing_outputs, csv, reported, charts>>

FileFound ==
    /\ pc = "check"
    /\ file.exists
    /\ pc' = "load"
    /\ UNCHANGED <<file, cache, df, current_time, widgets, filtered_df,
                   category_outputs, ongoing_outputs, csv, messages, reported,
                   charts>>

(***************************************************************************)
(* Lines 203-224: df = load_data() through st.cache_data, then the None    *)
(* check and the clock read.                                               *)
(***************************************************************************)
CachedLoad == IF cache.hit THEN cache.value ELSE load_data(file)

LoadFails ==
    /\ pc = "load"
    /\ CachedLoad.is_none
    /\ cache' = [hit |-> TRUE, value |-> CachedLoad]
    /\ df' = CachedLoad
    /\ messages' = messages \cup {"error: read failed"}
    /\ pc' = "stopped"
    /\ UNCHANGED <<file, current_time, widgets, filtered_df, category_outputs,
                   ongoing_outputs, csv, reported, charts>>

LoadOk ==
    /\ pc = "load"
    /\ ~CachedLoad.is_none
    /\ cache' = [hit |-> TRUE, value |-> CachedLoad]
    /\ df' = CachedLoad
    /\ \E now \in 0..MaxNow : current_time' = now
    /\ pc' = "sidebar"
    /\ UNCHANGED <<file, widgets, filtered_df, category_outputs,
                   ongoing_outputs, csv, messages, reported, charts>>

(***************************************************************************)
(* Lines 227-261: the sidebar widgets.                                     *)
(***************************************************************************)
\* No parseable signing date: min() is NaT and st.date_input rejects it.
\* No parseable amount: the number_input bounds are NaN, which the widget
\* may reject as well.
SidebarRaises ==
    /\ pc = "sidebar"
    /\ min_date(df.rows) = {} \/ min_amount(df.rows) = {}
    /\ messages' = messages \cup {"exception"}
    /\ pc' = "stopped"
    /\ UNCHANGED <<file, cache, df, current_time, widgets, filtered_df,
                   category_outputs, ongoing_outputs, csv, reported, charts>>

Sidebar ==
    /\ pc = "sidebar"
    /\ min_date(df.rows) # {}
    /\ start_date' \in DateChoices(df.rows)
    /\ end_date' \in DateChoices(df.rows)
    /\ min_amount_input' \in AmountChoices(df.rows)
    /\ max_amount_input' \in AmountChoices(df.rows)
    /\ selected_departments' \in SUBSET departments(df.rows)
    /\ selected_types' \in SUBSET procurement_types(df.rows, selected_departments')
    /\ chart_type' \in {"2D", "3D"}
    /\ apply_filter' \in BOOLEAN
    /\ pc' = "main"
    /\ UNCHANGED <<file, cache, df, current_time, filtered_df,
                   category_outputs, ongoing_outputs, csv, messages, reported,
                   charts>>

(***************************************************************************)
(* Lines 330-343 and 584-585: the main page.                               *)
(***************************************************************************)
NotApplied ==
    /\ pc = "main"
    /\ ~apply_filter
    /\ messages' = messages \cup {"info: set the criteria and press the button"}
    /\ pc' = "done"
    /\ UNCHANGED <<file, cache, df, current_time, widgets, filtered_df,
                   category_outputs, ongoing_outputs, csv, reported, charts>>

Filter ==
    /\ pc = "main"
    /\ apply_filter
    /\ filtered_df' = filtered_df_of(df.rows, start_date, end_date,
                                     min_amount_input, max_amount_input,
                                     selected_types, selected_departments)
    /\ messages' = messages \cup {"success: records found"}
    /\ reported' = {Len(filtered_df')}
    /\ pc' = "charts"
    /\ UNCHANGED <<file, cache, df, current_time, widgets, category_outputs,
                   ongoing_outputs, csv, charts>>

(***************************************************************************)
(* Lines 348-410: the two 2D category charts.                              *)
(***************************************************************************)
Charts2D ==
    /\ pc = "charts"
    /\ chart_type = "2D"
    /\ IF filtered_df # <<>>
       THEN /\ counts' = value_counts(filtered_df)
            /\ amount_by_type' \in sort_values_desc(groupby_sum(filtered_df))
            /\ charts' = charts \cup {"category count", "category amount"}
            /\ UNCHANGED messages
       ELSE /\ messages' = messages \cup {"warning: no matching data"}
            /\ UNCHANGED <<counts, amount_by_type, charts>>
    /\ pc' = "ongoing"
    /\ UNCHANGED <<file, cache, df, current_time, widgets, filtered_df, amounts,
                   ongoing_outputs, csv, reported>>

(***************************************************************************)
(* Lines 412-501: the 3D chart of counts and amounts.                      *)
(***************************************************************************)
Charts3D ==
    /\ pc = "charts"
    /\ chart_type = "3D"
    /\ IF filtered_df # <<>>
       THEN /\ counts' = value_counts(filtered_df)
            /\ amounts' = groupby_sum(filtered_df)
            /\ charts' = charts \cup {"category 3D"}
            /\ UNCHANGED messages
       ELSE /\ messages' = messages \cup {"warning: no data for the 3D chart"}
            /\ UNCHANGED <<counts, amounts, charts>>
    /\ pc' = "ongoing"
    /\ UNCHANGED <<file, cache, df, current_time, widgets, filtered_df,
                   amount_by_type, ongoing_outputs, csv, reported>>

(***************************************************************************)
(* Lines 503-573: the ongoing projects and their yearly breakdown.         *)
(***************************************************************************)
Ongoing ==
    /\ pc = "ongoing"
    /\ ongoing_projects' = ongoing_projects_of(df.rows, filtered_df, current_time,
                                               selected_departments, selected_types)
    /\ IF ongoing_projects' # <<>>
       THEN /\ yearly_stats' = yearly_stats_of(ongoing_projects')
            /\ charts' = charts \cup {"yearly count", "yearly amount"}
            /\ UNCHANGED messages
       ELSE /\ messages' = messages \cup {"warning: no ongoing projects"}
            /\ UNCHANGED <<yearly_stats, charts>>
    /\ pc' = "export"
    /\ UNCHANGED <<file, cache, df, current_time, widgets, filtered_df,
                   category_outputs, csv, reported>>

(***************************************************************************)
(* Lines 575-583: the CSV download of the filtered records.                *)
(***************************************************************************)
\* Variant: the download is offered only for a non-empty result.
ExportUnlessEmpty ==
    /\ pc = "export"
    /\ csv' = IF filtered_df = <<>> THEN csv ELSE <<to_csv(filtered_df)>>
    /\ pc' = "done"
    /\ UNCHANGED <<file, cache, df, current_time, widgets, filtered_df,
                   category_outputs, ongoing_outputs, messages, reported, charts>>

Export ==
    /\ pc = "export"
    /\ csv' = <<to_csv(filtered_df)>>
    /\ pc' = "done"
    /\ UNCHANGED <<file, cache, df, current_time, widgets, filtered_df,
                   category_outputs, ongoing_outputs, messages, reported, charts>>

(***************************************************************************)
(* The next interaction reruns the script from its top; only the cache     *)
(* outlives a pass.  Between passes the file may be removed, put back,     *)
(* damaged or repaired.                                                    *)
(***************************************************************************)
Rerun ==
    /\ pc \in {"done", "stopped"}
    /\ pc' = "check"
    /\ df' = [is_none |-> TRUE, rows |-> <<>>]
    /\ current_time' = 0
    /\ start_date' = 0
    /\ end_date' = 0
    /\ min_amount_input' = {}
    /\ max_amount_input' = {}
    /\ selected_departments' = {}
    /\ selected_types' = {}
    /\ chart_type' = "2D"
    /\ apply_filter' = FALSE
    /\ filtered_df' = <<>>
    /\ counts' = <<>>
    /\ amount_by_type' = <<>>
    /\ amounts' = <<>>
    /\ ongoing_projects' = <<>>
    /\ yearly_stats' = <<>>
    /\ csv' = <<>>
    /\ messages' = {}
    /\ reported' = {}
    /\ charts' = {}
    /\ UNCHANGED <<file, cache>>

FileChanges ==
    /\ pc = "check"
    /\ \E e, r \in BOOLEAN :
          /\ <<e, r>> # <<file.exists, file.readable>>
          /\ file' = [file EXCEPT !.exists = e, !.readable = r]
    /\ UNCHANGED <<cache, pc, df, current_time, widgets, filtered_df,
                   category_outputs, ongoing_outputs, csv, messages, reported,
                   charts>>

Next ==
    \/ FileNotFound
    \/ FileFound
    \/ LoadFails
    \/ LoadOk
    \/ SidebarRaises
    \/ Sidebar
    \/ NotApplied
    \/ Filter
    \/ Charts2D
    \/ Charts3D
    \/ Ongoing
    \/ Export
    \/ Rerun
    \/ FileChanges

Spec == Init /\ [][Next]_vars

InitOngoing == InitWith(OngoingRows)
SpecOngoing == InitOngoing /\ [][Next]_vars

InitAggregate == InitWith(AggregateRows)
SpecAggregate == InitAggregate /\ [][Next]_vars

InitCategory == InitWith(CategoryRows)
SpecCategory == InitCategory /\ [][Next]_vars

(***************************************************************************)
(* Properties of the Filter Evaluator.                                     *)
(***************************************************************************)
\* The pass applied the criteria and filtered_df holds its result.
Filtered == apply_filter /\ pc \in {"charts", "ongoing", "export", "done"}

\* The applied signing-date range, as timestamps.
StartTs == start_date * TicksPerDay
EndTs == end_date * TicksPerDay

DateInRange(r) ==
    /\ r.signing_date # {}
    /\ \A t \in r.signing_date : StartTs <= t /\ t <= EndTs
AmountInRange(r) ==
    /\ r.contract_amount # {}
    /\ min_amount_input # {}
    /\ max_amount_input # {}
    /\ \A a \in r.contract_amount :
          /\ \A lo \in min_amount_input : lo <= a
          /\ \A hi \in max_amount_input : a <= hi

\* filtered_df is df with rows left out: same records, same order.
IsSubframe(sub, rows) ==
    \E keep \in SUBSET (1..Len(rows)) :
        LET Kept(i) == i \in keep
        IN sub = [j \in 1..Len(SelectSeq([i \in 1..Len(rows) |-> i], Kept)) |->
                    rows[SelectSeq([i \in 1..Len(rows) |-> i], Kept)[j]]]

\* C1: after the filter ran, a loaded record is in filtered_df if and only
\* if its signing date lies in [start, end] (ends included, null never), its
\* amount lies in [min, max] (ends included, null never), its procurement
\* method is an accepted one and its department is an accepted one; and
\* filtered_df holds nothing but loaded records.
C1_FilterIsConjunction ==
    Filtered =>
        /\ IsSubframe(filtered_df, df.rows)
        /\ \A r \in Range(df.rows) :
              r \in Range(filtered_df) <=>
                  /\ DateInRange(r)
                  /\ AmountInRange(r)
                  /\ r.procurement_method \in selected_types
                  /\ r.department \in selected_departments

\* C1 witness: a record signed exactly at the end of the range with an amount
\* exactly at the maximum is kept, while another record is left out.
C1_Witness ==
    /\ Filtered
    /\ \E r \in Range(filtered_df) :
          /\ r.signing_date = {EndTs}
          /\ r.contract_amount = max_amount_input
    /\ \E r \in Range(df.rows) : r \notin Range(filtered_df)

\* A membership test that an empty accepted set would not restrict.
PassesSet(accepted, v) == accepted = {} \/ v \in accepted

\* C2: an empty accepted-department or accepted-method set restricts
\* nothing: a record is in filtered_df if and only if its date and amount
\* are in range and each non-empty accepted set contains its value.
C2_EmptySetPassesAll ==
    Filtered =>
        \A r \in Range(df.rows) :
            r \in Range(filtered_df) <=>
                /\ DateInRange(r)
                /\ AmountInRange(r)
                /\ PassesSet(selected_types, r.procurement_method)
                /\ PassesSet(selected_departments, r.department)

\* The sidebar's default criteria: the full observed ranges and every value.
DefaultCriteria ==
    /\ {start_date} = {DateOf(t) : t \in min_date(df.rows)}
    /\ {end_date} = {DateOf(t) : t \in max_date(df.rows)}
    /\ min_amount_input = min_amount(df.rows)
    /\ max_amount_input = max_amount(df.rows)
    /\ selected_departments = departments(df.rows)
    /\ selected_types = unique(df.rows, "procurement_method")

\* C3 as stated, on frames in which some amount parsed and the latest
\* signing date is a midnight (so that the default ranges are the observed
\* ranges): with the default criteria the filter returns the whole loaded
\* frame.
C3_DefaultsReturnAll ==
    (/\ Filtered
     /\ DefaultCriteria
     /\ min_amount(df.rows) # {}
     /\ \A m \in max_date(df.rows) : m = Midnight(DateOf(m))) =>
        filtered_df = df.rows

\* The records the default criteria keep: both fields parsed, and signed no
\* later than midnight of the last signing day.
KeptByDefaults(r) ==
    /\ r.signing_date # {}
    /\ r.contract_amount # {}
    /\ \A t \in r.signing_date : \A m \in max_date(df.rows) : t <= Midnight(DateOf(m))

NoNullsNoTimeOfDay ==
    /\ \A r \in Range(df.rows) : r.signing_date # {} /\ r.contract_amount # {}
    /\ \A m \in max_date(df.rows) : m = Midnight(DateOf(m))

\* C3 amended: with the default criteria the filter returns exactly the
\* records whose signing date and amount are not null and whose signing date
\* is not after midnight of the latest signing day; so it returns the whole
\* frame when no record has a null signing date or amount and the latest
\* signing date carries no time of day.
C3_DefaultsKeepParsedRows ==
    (Filtered /\ DefaultCriteria) =>
        /\ filtered_df = SelectSeq(df.rows, KeptByDefaults)
        /\ NoNullsNoTimeOfDay => filtered_df = df.rows

\* C3 witness: the defaults applied to a frame of two different, fully
\* parsed records return both.
C3_Witness ==
    /\ Filtered
    /\ DefaultCriteria
    /\ NoNullsNoTimeOfDay
    /\ Len(df.rows) >= 2
    /\ df.rows[1] # df.rows[2]
    /\ filtered_df = df.rows

(***************************************************************************)
(* Properties of the Ongoing-Project Selector.                             *)
(***************************************************************************)
\* The pass applied the criteria and ongoing_projects holds its selection.
OngoingSelected == apply_filter /\ pc \in {"export", "done"}

EndsAfterNow(r) ==
    r.performance_end # {} /\ \A t \in r.performance_end : t > current_time

\* C4: once the ongoing projects are selected, no record whose
\* performance_end is null or not later than the clock reading is among
\* them, whatever the criteria; and every record whose performance_end is
\* later than the clock reading and whose department and method are accepted
\* is among them.
C4_OngoingByEndDate ==
    OngoingSelected =>
        \A r \in Range(df.rows) :
            /\ ~EndsAfterNow(r) => r \notin Range(ongoing_projects)
            /\ (/\ EndsAfterNow(r)
                /\ r.department \in selected_departments
                /\ r.procurement_method \in selected_types)
                   => r \in Range(ongoing_projects)

\* C4 witness: of two records with accepted department and method, the one
\* ending exactly at the clock reading is left out and the one ending later
\* is selected although the filter dropped it.
C4_Witness ==
    /\ OngoingSelected
    /\ \E r \in Range(df.rows) :
          /\ r.performance_end = {current_time}
          /\ r.department \in selected_departments
          /\ r.procurement_method \in selected_types
          /\ r \notin Range(ongoing_projects)
    /\ \E r \in Range(ongoing_projects) :
          /\ EndsAfterNow(r)
          /\ r \notin Range(filtered_df)

\* C5: the selection of ongoing projects is the one the pass would have
\* made with any other signing-date range the sidebar offers, the clock
\* reading and the accepted departments and methods being the same.
C5_OngoingIgnoresDateRange ==
    OngoingSelected =>
        \A s, e \in DateChoices(df.rows) :
            ongoing_projects =
                ongoing_projects_of(
                    df.rows,
                    filtered_df_of(df.rows, s, e, min_amount_input,
                                   max_amount_input, selected_types,
                                   selected_departments),
                    current_time, selected_departments, selected_types)

\* C5 witness: an ongoing record is selected in a pass whose signing-date
\* range excludes it, and another range the sidebar offers would have kept
\* it in the filtered frame.
C5_Witness ==
    /\ OngoingSelected
    /\ \E r \in Range(ongoing_projects) :
          /\ r \notin Range(filtered_df)
          /\ \E s, e \in DateChoices(df.rows) :
                r \in Range(filtered_df_of(df.rows, s, e, min_amount_input,
                                           max_amount_input, selected_types,
                                           selected_departments))

(***************************************************************************)
(* Properties of the Aggregator.                                           *)
(***************************************************************************)
\* The pass applied the criteria and drew (or skipped) the category charts.
CategoriesDone == apply_filter /\ pc \in {"ongoing", "export", "done"}

RowsAt(rows, Key(_), k) == {i \in 1..Len(rows) : Key(rows[i]) = {k}}

RECURSIVE TotalOf(_, _)
\* The total of contract_amount over the rows at the indices I, a null
\* amount counting as 0.
TotalOf(rows, I) ==
    IF I = {} THEN 0
    ELSE LET i == CHOOSE j \in I : TRUE
         IN (IF rows[i].contract_amount = {} THEN 0
             ELSE CHOOSE a \in rows[i].contract_amount : TRUE)
            + TotalOf(rows, I \ {i})

RECURSIVE SumOfCounts(_)
SumOfCounts(stats) ==
    IF stats = <<>> THEN 0
    ELSE Head(stats).project_count + SumOfCounts(Tail(stats))

MethodKey(r) == {r.procurement_method}
CategorySums == IF chart_type = "2D" THEN amount_by_type ELSE amounts

\* C6, on frames in which some amount parsed: a record whose amount was
\* coerced to null is never in filtered_df, and it is still counted where it
\* is aggregated.  The category counts are taken over filtered_df, where it
\* never is; selected as an ongoing project with a start year, the project
\* count of that year counts every ongoing record of the year, it included.
C6_NullAmountStillCounted ==
    (OngoingSelected /\ min_amount(df.rows) # {}) =>
        \A r \in Range(df.rows) :
            r.contract_amount = {} =>
                /\ r \notin Range(filtered_df)
                /\ r \in Range(ongoing_projects) =>
                      \A y \in YearCol(r) :
                          \E e \in Range(yearly_stats) :
                              /\ e.year = y
                              /\ e.project_count =
                                    Cardinality(RowsAt(ongoing_projects, YearCol, y))

\* C7, on frames in which some amount parsed: for both groupings, each key maps to the number of records with that
\* key (null amounts included) and to the total of their amounts (null as
\* 0): the category counts and sums over a non-empty filtered_df, the yearly
\* counts and sums over the ongoing projects; and the yearly counts add up
\* to the number of ongoing projects (stated for ongoing projects that all
\* have a start year, the grouping key).
C7_GroupCountAndSum ==
    min_amount(df.rows) # {} =>
    /\ (CategoriesDone /\ filtered_df # <<>>) =>
          /\ DOMAIN counts = unique(filtered_df, "procurement_method")
          /\ \A k \in DOMAIN counts :
                counts[k] = Cardinality(RowsAt(filtered_df, MethodKey, k))
          /\ {e.key : e \in Range(CategorySums)} =
                unique(filtered_df, "procurement_method")
          /\ \A e \in Range(CategorySums) :
                e.sum = TotalOf(filtered_df, RowsAt(filtered_df, MethodKey, e.key))
    /\ (OngoingSelected /\ ongoing_projects # <<>>) =>
          /\ {e.year : e \in Range(yearly_stats)} =
                UNION {YearCol(r) : r \in Range(ongoing_projects)}
          /\ \A e \in Range(yearly_stats) :
                /\ e.project_count =
                      Cardinality(RowsAt(ongoing_projects, YearCol, e.year))
                /\ e.amount_sum =
                      TotalOf(ongoing_projects,
                              RowsAt(ongoing_projects, YearCol, e.year))
          /\ (\A r \in Range(ongoing_projects) : r.performance_start # {}) =>
                SumOfCounts(yearly_stats) = Len(ongoing_projects)

Descending(entries) ==
    \A i \in 1..Len(entries) - 1 : entries[i].sum >= entries[i + 1].sum
KeyAscending(entries) ==
    \A i \in 1..Len(entries) - 1 :
        KeyRank(entries[i].key) < KeyRank(entries[i + 1].key)
OneEntryPerCategory(entries) ==
    /\ Len(entries) = Cardinality(unique(filtered_df, "procurement_method"))
    /\ {e.key : e \in Range(entries)} = unique(filtered_df, "procurement_method")
    /\ \A e \in Range(entries) :
          e.sum = TotalOf(filtered_df, RowsAt(filtered_df, MethodKey, e.key))

\* C8 as stated: the amounts by category are presented by descending sum
\* in the 2D mode and in the 3D mode.
C8_DescendingInBothModes ==
    (CategoriesDone /\ filtered_df # <<>>) => Descending(CategorySums)

\* C8 amended: in the 2D mode the amount chart lists every category once,
\* by descending summed amount; in the 3D mode the amounts are listed once
\* per category in the natural order of the category keys, not by sum.
C8_Descending2DKeyOrder3D ==
    (CategoriesDone /\ filtered_df # <<>>) =>
        /\ OneEntryPerCategory(CategorySums)
        /\ chart_type = "2D" => Descending(amount_by_type)
        /\ chart_type = "3D" => KeyAscending(amounts)

\* C8 witness: a 2D pass presents a category of larger sum before one of
\* smaller sum whose key comes first in key order.
C8_Witness ==
    /\ CategoriesDone
    /\ chart_type = "2D"
    /\ Len(amount_by_type) >= 2
    /\ amount_by_type[1].sum > amount_by_type[2].sum
    /\ KeyRank(amount_by_type[1].key) > KeyRank(amount_by_type[2].key)

(***************************************************************************)
(* Properties of the error handling.                                       *)
(***************************************************************************)
NoControlBuilt ==
    /\ start_date = 0 /\ end_date = 0
    /\ min_amount_input = {} /\ max_amount_input = {}
    /\ selected_departments = {} /\ selected_types = {}
    /\ ~apply_filter
NothingComputed ==
    /\ filtered_df = <<>> /\ reported = {}
    /\ counts = <<>> /\ amount_by_type = <<>> /\ amounts = <<>>
    /\ ongoing_projects = <<>> /\ yearly_stats = <<>>
    /\ charts = {} /\ csv = <<>>

\* C9: a pass that is past the file check and the load either has the file
\* on disk and a loaded frame, or it is stopped with an error shown, no
\* sidebar control built and nothing filtered, aggregated or exported.
C9_AbsentDatasetStops ==
    pc \notin {"check", "load"} =>
        \/ file.exists /\ ~df.is_none
        \/ /\ pc = "stopped"
           /\ messages \in {{"error: file not found"}, {"error: read failed"}}
           /\ NoControlBuilt
           /\ NothingComputed

\* C9 witness: a frame was loaded and cached in an earlier pass, the file
\* was then removed, and this pass stopped at the file check with the error.
C9_Witness ==
    /\ pc = "stopped"
    /\ ~file.exists
    /\ cache.hit /\ ~cache.value.is_none
    /\ messages = {"error: file not found"}
    /\ NoControlBuilt
    /\ NothingComputed

ZeroRecords == apply_filter /\ filtered_df = <<>>
HeaderOnly == <<[header |-> CsvHeader, lines |-> <<>>]>>
ZeroResultReport ==
    /\ reported = {0}
    /\ "success: records found" \in messages
    /\ "info: set the criteria and press the button" \notin messages
    /\ messages \cap {"exception", "error: file not found", "error: read failed"} = {}
    /\ csv = HeaderOnly

\* C10 as stated, on frames in which some amount parsed: a finished pass
\* whose criteria excluded every record reports zero records, not the
\* not-applied notice, draws no chart and exports a header-only CSV.
C10_ZeroResultDrawsNothing ==
    (pc = "done" /\ ZeroRecords /\ min_amount(df.rows) # {}) =>
        ZeroResultReport /\ charts = {}

\* C10 amended: a pass whose criteria excluded every record runs to its
\* end; it reports zero records (the not-applied pass reports no count and
\* shows the notice instead), draws no category chart and shows the no-data
\* warning in their place, and exports a header-only CSV; the yearly charts
\* of the ongoing projects are still drawn when ongoing records match.
C10_ZeroResultIsValid ==
    /\ (ZeroRecords /\ pc \in {"charts", "ongoing", "export"}) => ENABLED Next
    /\ (pc = "done" /\ ZeroRecords) =>
          /\ ZeroResultReport
          /\ charts \subseteq {"yearly count", "yearly amount"}
          /\ charts # {} <=> ongoing_projects # <<>>
          /\ messages \cap {"warning: no matching data",
                             "warning: no data for the 3D chart"} # {}
    /\ (pc = "done" /\ ~apply_filter) =>
          /\ reported = {}
          /\ messages = {"info: set the criteria and press the button"}
          /\ csv = <<>>

\* C10 witness: a finished pass over a loaded frame kept no record, reported
\* zero, exported the header alone and still drew the yearly charts.
C10_Witness ==
    /\ pc = "done"
    /\ ZeroRecords
    /\ min_amount(df.rows) # {}
    /\ ZeroResultReport
    /\ charts = {"yearly count", "yearly amount"}

(***************************************************************************)
(* Order independence of the Aggregator.                                   *)
(***************************************************************************)
\* The record collections that hold the records of rows in another order.
Reorderings(rows) ==
    {[i \in 1..Len(rows) |-> rows[p[i]]] :
        p \in {q \in [1..Len(rows) -> 1..Len(rows)] :
                 \A i, j \in 1..Len(rows) : i # j => q[i] # q[j]}}

KeySums(entries) == {<<e.key, e.sum>> : e \in Range(entries)}

====
